---- MODULE Spec2Model ----
(***************************************************************************)
(* Trigger / task-scheduling engine of openbot                             *)
(*   src/src/openbot/botflow/trigger.py  (Trigger, OnceTrigger,            *)
(*                                        IntervalTrigger, CronTrigger)    *)
(*   src/src/openbot/botflow/task.py     (Task, TaskManager)               *)
(*                                                                         *)
(* Time is counted in whole seconds from an arbitrary origin; a datetime   *)
(* is an integer, datetime.max is the value DatetimeMax.  interval is an   *)
(* integer number of seconds.  Task functions are ordinary (coroutine)     *)
(* functions, so task.func.__name__ exists.  Every submit_task call is     *)
(* made with a new Task and a new trigger object.                          *)
(***************************************************************************)
EXTENDS Integers, Sequences, FiniteSets, TLC

VARIABLES
    now,            \* datetime.datetime.now(), the wall clock
    queue,          \* TaskManager._task_queue._queue, the heap list of (trigger, task)
    stop_event,     \* TaskManager.stop_event.is_set()
    pc,             \* where the coroutine TaskManager.run is
    task,           \* the local variable task of TaskManager.run
    deadline,       \* the instant the timeout of asyncio.wait_for expires
    notified,       \* the waiter of _new_task_condition has been notified
    nsub,           \* number of submit_task calls made so far
    submitResult,   \* how the last submit_task call ended
    refused,        \* the tasks whose submit_task call raised an exception
    immediate,      \* the tasks that were submitted with no trigger
    lastReturn,     \* while a task executes: what get_task returned, when, and from which queue
    dispatched,     \* how many times get_task has returned each task
    trig,           \* a trigger object observed on its own
    lastCall,       \* the last operation on trig and what it returned
    fires,          \* the fire times next(trig) produced, while nothing but next() was called
    field,          \* a _CronField object observed on its own
    fieldCall       \* the last operation on field: its arguments and what it gave

schedVars == <<queue, stop_event, pc, task, deadline, notified, nsub,
               submitResult, refused, immediate, lastReturn, dispatched>>
trigVars  == <<trig, lastCall, fires>>
fieldVars == <<field, fieldCall>>
vars      == <<now, queue, stop_event, pc, task, deadline, notified, nsub,
               submitResult, refused, immediate, lastReturn, dispatched, trig, lastCall, fires,
               field, fieldCall>>

(***************************************************************************)
(* Bounds of the model                                                     *)
(***************************************************************************)
MaxClock == 2        \* the clock runs from 0 to MaxClock
MaxTasks == 4        \* submit_task calls in the general scheduler
MaxTieTasks == 6     \* submit_task calls in the scheduler with colliding triggers
MaxFires == 3        \* fire times recorded for a trigger observed on its own
MaxWindow == 2       \* start_dt and end_dt of observed triggers lie in 0..MaxWindow
MaxHorizon == 4      \* no fire time is computed from a trigger_dt farther than this from 0
MaxTerms == 2        \* comma-separated terms in a cron field string

DatetimeMax == 1000000   \* datetime.max

Times == 0..MaxClock

(***************************************************************************)
(* Strings: a str is the sequence of its characters                        *)
(***************************************************************************)
DigitChars == <<"0", "1", "2", "3", "4", "5", "6", "7", "8", "9">>

IsDigit(c) == \E d \in DOMAIN DigitChars : DigitChars[d] = c

DigitVal(c) == (CHOOSE d \in DOMAIN DigitChars : DigitChars[d] = c) - 1

\* str(n), n >= 0
RECURSIVE Digits(_)
Digits(n) == IF n < 10 THEN <<DigitChars[n + 1]>>
             ELSE Digits(n \div 10) \o <<DigitChars[(n % 10) + 1]>>

\* int(str) raises ValueError unless str is a non-empty run of digits (the
\* strings here hold no sign, blank or underscore inside a number)
IsInt(str) == str # <<>> /\ \A i \in DOMAIN str : IsDigit(str[i])

RECURSIVE int(_)
int(str) == IF str = <<>> THEN 0
            ELSE 10 * int(SubSeq(str, 1, Len(str) - 1)) + DigitVal(str[Len(str)])

Contains(str, c) == \E i \in DOMAIN str : str[i] = c

\* str.split(sep)
RECURSIVE split(_, _)
split(str, sep) ==
    IF ~Contains(str, sep) THEN <<str>>
    ELSE LET i == CHOOSE k \in DOMAIN str :
                     str[k] = sep /\ \A j \in 1..(k - 1) : str[j] # sep
         IN  <<SubSeq(str, 1, i - 1)>> \o split(SubSeq(str, i + 1, Len(str)), sep)

\* str.split(): the pieces between blanks, empty pieces dropped
SplitBlank(str) == SelectSeq(split(str, " "), LAMBDA piece : piece # <<>>)

\* sep.join(strs)
RECURSIVE join(_, _)
join(strs, sep) ==
    IF strs = <<>> THEN <<>>
    ELSE IF Len(strs) = 1 THEN strs[1]
    ELSE strs[1] \o <<sep>> \o join(Tail(strs), sep)

\* sorted(list(values))
RECURSIVE sorted(_)
sorted(S) ==
    IF S = {} THEN <<>>
    ELSE LET least == CHOOSE x \in S : \A y \in S : x <= y
         IN  <<least>> \o sorted(S \ {least})

\* range(start, stop, step), step > 0
range(start, stop, step) == {v \in start..(stop - 1) : (v - start) % step = 0}

(***************************************************************************)
(* _CronField                                                              *)
(***************************************************************************)
ValueError == [exc |-> "ValueError", values |-> {}]

Values(S) == [exc |-> "none", values |-> S]

\* _parse_field, lines 47-48: a part with "-", split at it
ParseRange(pieces) ==
    IF Len(pieces) # 2 \/ ~IsInt(pieces[1]) \/ ~IsInt(pieces[2]) THEN ValueError
    ELSE Values(range(int(pieces[1]), int(pieces[2]) + 1, 1))

\* _parse_field, lines 50-53: a part with "/", split at it
ParseStep(pieces, min_val, max_val) ==
    IF Len(pieces) # 2 THEN ValueError
    ELSE IF pieces[1] # <<"*">> /\ ~IsInt(pieces[1]) THEN ValueError
    ELSE IF ~IsInt(pieces[2]) THEN ValueError
    ELSE IF int(pieces[2]) = 0 THEN ValueError
    ELSE Values(range(IF pieces[1] = <<"*">> THEN min_val ELSE int(pieces[1]),
                      max_val + 1, int(pieces[2])))

\* one pass of the loop of _CronField._parse_field: the values of one part
ParsePart(part, min_val, max_val) ==
    IF Contains(part, "-") THEN ParseRange(split(part, "-"))
    ELSE IF Contains(part, "/") THEN ParseStep(split(part, "/"), min_val, max_val)
    ELSE IF ~IsInt(part) THEN ValueError
    ELSE Values({int(part)})

\* _parse_field, lines 44-56: the set filled part by part, then sorted
ParseParts(parts, min_val, max_val) ==
    IF \E i \in DOMAIN parts : ParsePart(parts[i], min_val, max_val).exc # "none"
    THEN [exc |-> "ValueError", values |-> <<>>]
    ELSE [exc |-> "none",
          values |-> sorted(UNION {ParsePart(parts[i], min_val, max_val).values :
                                      i \in DOMAIN parts})]

\* _CronField._parse_field: the sorted list of values, or ValueError
\* (written parse_field: a TLA+ name does not start with an underscore)
parse_field(value, min_val, max_val) ==
    IF value = <<"*">> THEN [exc |-> "none", values |-> sorted(min_val..max_val)]
    ELSE ParseParts(split(value, ","), min_val, max_val)

\* _CronField.__init__, lines 27-30: the attributes of the new object
CronFieldOf(parsed, min_val, max_val) ==
    [exc |-> parsed.exc, min |-> min_val, max |-> max_val,
     values |-> parsed.values, iter_index |-> 0]

\* _CronField.__init__
CronField(value, min_val, max_val) ==
    CronFieldOf(parse_field(value, min_val, max_val), min_val, max_val)

\* _CronField.reset(value): iter_index is counted from 0
CronFieldReset(f, value) ==
    LET hits == {idx \in DOMAIN f.values : f.values[idx] >= value}
    IN  [f EXCEPT !.iter_index =
            IF hits = {} THEN 0
            ELSE (CHOOSE idx \in hits : \A other \in hits : idx <= other) - 1]

\* _CronField.__iter__ run to its end: what it yields, and the object after
CronFieldIter(f) ==
    [yielded |-> SubSeq(f.values, f.iter_index + 1, Len(f.values)),
     field |-> [f EXCEPT !.iter_index = 0]]

(***************************************************************************)
(* Triggers                                                                *)
(***************************************************************************)
Star == <<"*">>

\* a cron expression written out from its fields
Expr(fields) == join(fields, " ")

DefaultCron == Expr(<<Star, Star, Star, Star, Star, Star>>)     \* "* * * * * *"
EveryMinute == Expr(<<Digits(0), Star, Star, Star, Star, Star>>) \* "0 * * * * *"

\* "0 0,30 8,12 * * *": on the hour and the half hour, at 8 and at 12
HalfHours ==
    Expr(<<Digits(0), Digits(0) \o <<",">> \o Digits(30),
           Digits(8) \o <<",">> \o Digits(12), Star, Star, Star>>)

\* "0 0 0 29 2 *": midnight of the 29th of February
LeapDay == Expr(<<Digits(0), Digits(0), Digits(0), Digits(29), Digits(2), Star>>)

\* "0 0 0 1,2,30 2,3 4": midnight of the 1st, 2nd and 30th of February and
\* March when that day is a Friday (datetime.weekday() = 4)
FridayDates ==
    Expr(<<Digits(0), Digits(0), Digits(0),
           Digits(1) \o <<",">> \o Digits(2) \o <<",">> \o Digits(30),
           Digits(2) \o <<",">> \o Digits(3), Digits(4)>>)

\* datetime(2024, 2, 25, hour, minute, second) + timedelta(days=day) where a
\* calendar is needed: the origin of time is then 2024-02-25 09:15:00, a Sunday
Datetime(day, hour, minute, second) ==
    ((day * 24 + hour) * 60 + minute) * 60 + second - (9 * 60 + 15) * 60

\* Trigger(BaseModel): the seven fields, and the class of the object
MkTrigger(kind, start_dt, end_dt, trigger_dt, interval, cron_expression, skip_past) ==
    [kind |-> kind, start_dt |-> start_dt, end_dt |-> end_dt,
     trigger_dt |-> trigger_dt, interval |-> interval,
     cron_expression |-> cron_expression, skip_past |-> skip_past,
     status |-> "Ready"]

\* Trigger.model_post_init: TRUE when the object is accepted
model_post_init(tr) ==
    /\ ~(tr.start_dt > tr.end_dt)
    /\ tr.start_dt <= tr.trigger_dt /\ tr.trigger_dt <= tr.end_dt

OnceTrigger(trigger_dt, skip_past) ==
    MkTrigger("Once", trigger_dt, trigger_dt, trigger_dt, 0, DefaultCron, skip_past)

IntervalTrigger(interval, start_dt, end_dt, skip_past) ==
    MkTrigger("Interval", start_dt, end_dt, start_dt, interval, DefaultCron, skip_past)

CronTrigger(cron_expression, start_dt, end_dt, skip_past) ==
    MkTrigger("Cron", start_dt, end_dt, start_dt, 0, cron_expression, skip_past)

\* once(fire_time)
once(fire_time) == OnceTrigger(fire_time, FALSE)

\* what a fire-time computation gives back: the object after the call, the
\* returned pair (dt, status), or the exception that left the call
Ret(tr, dt, status) == [tr |-> tr, dt |-> dt, status |-> status, exc |-> "none"]
Raise(tr, exc)      == [tr |-> tr, dt |-> tr.trigger_dt, status |-> tr.status, exc |-> exc]

\* Python's floor division a // b, b # 0
FloorDiv(a, b) ==
    IF b > 0 THEN a \div b
    ELSE (0 - a) \div (0 - b)

\* datetime + timedelta: OverflowError past datetime.max
AddOverflows(dt, seconds) == dt + seconds > DatetimeMax

\* a get_first_fire_time that does not look at skip_past
OnceGetFirstFireTimeNoSkip(tr, t) == Ret(tr, tr.trigger_dt, "Running")

OnceGetFirstFireTime(tr, t) ==
    IF tr.skip_past /\ tr.trigger_dt < t
    THEN Ret(tr, DatetimeMax, "Completed")
    ELSE Ret(tr, tr.trigger_dt, "Running")

OnceGetNextFireTime(tr, t) == Ret(tr, DatetimeMax, "Completed")

IntervalGetFirstFireTime(tr, t) ==
    IF tr.status \in {"Running", "Completed"} THEN Ret(tr, tr.trigger_dt, tr.status)
    ELSE IF tr.skip_past /\ tr.trigger_dt < t
    THEN IF tr.interval = 0 THEN Raise(tr, "ZeroDivisionError")
         ELSE LET delta == FloorDiv(t - tr.start_dt, tr.interval) * tr.interval
                           + tr.interval
              IN  IF AddOverflows(tr.start_dt, delta) THEN Raise(tr, "OverflowError")
                  ELSE LET moved == [tr EXCEPT !.trigger_dt = tr.start_dt + delta]
                       IN  IF moved.trigger_dt > moved.end_dt
                           THEN Ret(moved, DatetimeMax, "Completed")
                           ELSE Ret(moved, moved.trigger_dt, "Running")
    ELSE Ret(tr, tr.trigger_dt, "Running")

IntervalGetNextFireTime(tr, t) ==
    IF tr.status = "Completed" THEN Ret(tr, DatetimeMax, "Completed")
    ELSE IF AddOverflows(tr.trigger_dt, tr.interval) THEN Raise(tr, "OverflowError")
    ELSE IF tr.trigger_dt + tr.interval > tr.end_dt THEN Ret(tr, DatetimeMax, "Completed")
    ELSE LET moved == [tr EXCEPT !.trigger_dt = tr.trigger_dt + tr.interval]
         IN  Ret(moved, moved.trigger_dt, "Running")

\* a to_datetime that exists and returns
to_datetimeDefined(dt) == [exc |-> "none"]

\* _Cron.__init__ calls to_datetime before it looks at the expression, and
\* to_datetime is a name that trigger.py neither defines nor imports
to_datetime(dt) == [exc |-> "NameError"]

\* the ranges of second, minute, hour, day, month, weekday
CronFieldRanges == <<<<0, 59>>, <<0, 59>>, <<0, 23>>, <<1, 31>>, <<1, 12>>, <<0, 6>>>>

\* _Cron.__init__: how it ends
CronInit(cron_expression, start_dt, end_dt) ==
    LET converted == to_datetime(start_dt)
        fields    == SplitBlank(cron_expression)
    IN  IF converted.exc # "none" THEN [exc |-> converted.exc]
        ELSE IF Len(fields) # 6 THEN [exc |-> "ValueError"]
        ELSE IF \E i \in 1..6 :
                   CronField(fields[i], CronFieldRanges[i][1], CronFieldRanges[i][2]).exc
                       # "none"
             THEN [exc |-> "ValueError"]
             ELSE [exc |-> "none"]

\* the statements after _Cron(...) are never reached
CronGetFirstFireTime(tr, t) ==
    IF tr.status \in {"Running", "Completed"} THEN Ret(tr, tr.trigger_dt, tr.status)
    ELSE Raise(tr, CronInit(tr.cron_expression, tr.start_dt, tr.end_dt).exc)

\* no _Cron object is ever built, so self._cron does not exist
CronGetNextFireTime(tr, t) ==
    IF tr.status = "Completed" THEN Ret(tr, DatetimeMax, "Completed")
    ELSE Raise(tr, "AttributeError")

get_first_fire_time(tr, t) ==
    CASE tr.kind = "Once"     -> OnceGetFirstFireTime(tr, t)
      [] tr.kind = "Interval" -> IntervalGetFirstFireTime(tr, t)
      [] tr.kind = "Cron"     -> CronGetFirstFireTime(tr, t)

get_next_fire_time(tr, t) ==
    CASE tr.kind = "Once"     -> OnceGetNextFireTime(tr, t)
      [] tr.kind = "Interval" -> IntervalGetNextFireTime(tr, t)
      [] tr.kind = "Cron"     -> CronGetNextFireTime(tr, t)

\* Trigger.__next__, lines 238-245: the pair a fire-time computation returned
\* is assigned to trigger_dt and status; StopIteration when Completed
TriggerAssign(r) ==
    IF r.exc # "none" THEN [tr |-> r.tr, exc |-> r.exc]
    ELSE [tr |-> [r.tr EXCEPT !.trigger_dt = r.dt, !.status = r.status],
          exc |-> IF r.status = "Completed" THEN "StopIteration" ELSE "none"]

\* Trigger.__next__: the object after the call and how the call ended
\* ("none": it returned self)
TriggerNext(tr, t) ==
    IF tr.status = "Completed" THEN [tr |-> tr, exc |-> "StopIteration"]
    ELSE TriggerAssign(IF tr.status = "Ready" THEN get_first_fire_time(tr, t)
                       ELSE get_next_fire_time(tr, t))

\* Trigger.__iter__
TriggerIter(tr) == [tr EXCEPT !.status = "Ready"]

(***************************************************************************)
(* A trigger observed on its own: construction, iter(), next() and the     *)
(* two fire-time methods called directly, at any time of the clock         *)
(***************************************************************************)
NoTrigger == [kind |-> "None"]

Windows == 0..MaxWindow

\* IntervalTrigger accepts every number as its interval, also one as long as
\* the whole range of datetime
Intervals == {0 - 1, 0, 1, 2, DatetimeMax}

CronWindows == {0, 60, 180}

\* cron expressions with the end of their window: two days of half hours,
\* a window that ends before the 29th of February and one that ends after
\* it, ten days for the Fridays
CronSchedules ==
    {<<HalfHours, Datetime(2, 0, 0, 0)>>,
     <<LeapDay, Datetime(1, 0, 0, 0)>>,
     <<LeapDay, Datetime(6, 0, 0, 0)>>,
     <<FridayDates, Datetime(10, 0, 0, 0)>>}

\* the calls OnceTrigger(...), IntervalTrigger(...), CronTrigger(...) can be made with
Constructions ==
    {OnceTrigger(t, sk) : t \in Windows, sk \in BOOLEAN}
    \cup {IntervalTrigger(iv, s, e, sk) :
            iv \in Intervals, s \in Windows, e \in Windows \cup {DatetimeMax}, sk \in BOOLEAN}
    \cup {CronTrigger(EveryMinute, s, e, sk) :
            s \in CronWindows, e \in CronWindows, sk \in BOOLEAN}
    \cup {CronTrigger(c[1], 0, c[2], FALSE) : c \in CronSchedules}

NoCall == [op |-> "none", exc |-> "none", dt |-> 0, status |-> "Ready",
           arg |-> NoTrigger, onlyNext |-> TRUE]

InHorizon(tr) ==
    \/ tr.trigger_dt = DatetimeMax
    \/ tr.kind = "Cron"
    \/ (tr.trigger_dt >= 0 - MaxHorizon /\ tr.trigger_dt <= MaxHorizon)

\* BaseModel.__init__ followed by model_post_init
Construct(candidate) ==
    /\ trig = NoTrigger
    /\ lastCall.op = "none"
    /\ trig' = IF model_post_init(candidate) THEN candidate ELSE NoTrigger
    /\ lastCall' = [NoCall EXCEPT !.op = "construct", !.arg = candidate,
                                  !.exc = IF model_post_init(candidate) THEN "none"
                                          ELSE "ValueError"]
    /\ UNCHANGED <<now, fires, schedVars, fieldVars>>

\* next(trigger)
CallNext ==
    /\ trig # NoTrigger
    /\ Len(fires) < MaxFires
    /\ InHorizon(trig)
    /\ LET r == TriggerNext(trig, now)
       IN  /\ trig' = r.tr
           /\ lastCall' = [op |-> "next", exc |-> r.exc, dt |-> r.tr.trigger_dt,
                           status |-> r.tr.status, arg |-> NoTrigger,
                           onlyNext |-> lastCall.onlyNext]
           /\ fires' = IF r.exc = "none" /\ lastCall.onlyNext
                       THEN Append(fires, r.tr.trigger_dt) ELSE fires
    /\ UNCHANGED <<now, schedVars, fieldVars>>

\* iter(trigger)
CallIter ==
    /\ trig # NoTrigger
    /\ trig' = TriggerIter(trig)
    /\ lastCall' = [op |-> "iter", exc |-> "none", dt |-> trig'.trigger_dt,
                    status |-> trig'.status, arg |-> NoTrigger, onlyNext |-> FALSE]
    /\ fires' = <<>>
    /\ UNCHANGED <<now, schedVars, fieldVars>>

\* trigger.get_first_fire_time() called by itself, as the unit tests do
CallGetFirstFireTime ==
    /\ trig # NoTrigger
    /\ LET r == get_first_fire_time(trig, now)
       IN  /\ trig' = r.tr
           /\ lastCall' = [op |-> "get_first_fire_time", exc |-> r.exc, dt |-> r.dt,
                           status |-> r.status, arg |-> NoTrigger, onlyNext |-> FALSE]
    /\ fires' = <<>>
    /\ UNCHANGED <<now, schedVars, fieldVars>>

\* trigger.get_next_fire_time() called by itself
CallGetNextFireTime ==
    /\ trig # NoTrigger
    /\ InHorizon(trig)
    /\ LET r == get_next_fire_time(trig, now)
       IN  /\ trig' = r.tr
           /\ lastCall' = [op |-> "get_next_fire_time", exc |-> r.exc, dt |-> r.dt,
                           status |-> r.status, arg |-> NoTrigger, onlyNext |-> FALSE]
    /\ fires' = <<>>
    /\ UNCHANGED <<now, schedVars, fieldVars>>

\* the wall clock advances
Tick ==
    /\ now < MaxClock
    /\ now' = now + 1
    /\ UNCHANGED <<schedVars, trigVars, fieldVars>>

\* no task: the name task of TaskManager.run is unbound
NoTask == 0
NoReturn == [task |-> NoTask, dt |-> 0, at |-> 0, before |-> <<>>]
NoSubmit == [task |-> NoTask, exc |-> "none", queued |-> FALSE, cron_expression |-> <<>>]

SchedIdle ==
    /\ queue = <<>>
    /\ stop_event = FALSE
    /\ pc = "loop"
    /\ task = NoTask
    /\ deadline = 0
    /\ notified = FALSE
    /\ nsub = 0
    /\ submitResult = NoSubmit
    /\ refused = {}
    /\ immediate = {}
    /\ lastReturn = NoReturn
    /\ dispatched = <<>>

TrigIdle ==
    /\ trig = NoTrigger
    /\ lastCall = NoCall
    /\ fires = <<>>

NoField == [exc |-> "unbuilt"]
NoFieldCall == [op |-> "none", prev |-> "none", terms |-> <<>>, value |-> <<>>,
                exc |-> "none", arg |-> 0, yielded |-> <<>>]

FieldIdle ==
    /\ field = NoField
    /\ fieldCall = NoFieldCall

TriggerInit == now \in Times /\ SchedIdle /\ TrigIdle /\ FieldIdle

TriggerNextStep ==
    \/ \E c \in Constructions : Construct(c)
    \/ CallNext
    \/ CallIter
    \/ CallGetFirstFireTime
    \/ CallGetNextFireTime
    \/ Tick

TriggerSpec == TriggerInit /\ [][TriggerNextStep]_vars

(***************************************************************************)
(* The priority queue: asyncio.PriorityQueue keeps a list ordered by       *)
(* heapq.heappush / heapq.heappop; the items are tuples (trigger, task).   *)
(* Positions are counted from 0 as in the list.                            *)
(***************************************************************************)
Entry(trigger, t) == [trigger |-> trigger, task |-> t]

\* (trigger, task) < (trigger, task): the triggers are compared with ==
\* (BaseModel.__eq__: same class, same field values); when they differ the
\* answer is Trigger.__lt__, when they are equal the tasks are compared, and
\* two different Task objects have no order: TypeError ("E")
TupleLt(a, b) ==
    IF a.trigger # b.trigger
    THEN IF a.trigger.trigger_dt < b.trigger.trigger_dt THEN "T" ELSE "F"
    ELSE IF a.task = b.task THEN "F" ELSE "E"

Swap(heap, i, j) == [heap EXCEPT ![i + 1] = heap[j + 1], ![j + 1] = heap[i + 1]]

\* heapq siftdown: the item at pos moves towards startpos past every parent
\* it is less than; a comparison that raises leaves the list as it is then
RECURSIVE siftdown(_, _, _)
siftdown(heap, startpos, pos) ==
    IF pos <= startpos THEN [heap |-> heap, err |-> FALSE]
    ELSE LET parentpos == (pos - 1) \div 2
             cmp == TupleLt(heap[pos + 1], heap[parentpos + 1])
         IN  CASE cmp = "E" -> [heap |-> heap, err |-> TRUE]
               [] cmp = "F" -> [heap |-> heap, err |-> FALSE]
               [] cmp = "T" -> siftdown(Swap(heap, pos, parentpos), startpos, parentpos)

\* heapq siftup: the item at pos moves to a leaf, the smaller child (the right
\* one unless the left one is less) moving up each time, then siftdown
RECURSIVE siftup(_, _, _)
siftup(heap, startpos, pos) ==
    IF pos >= Len(heap) \div 2 THEN siftdown(heap, startpos, pos)
    ELSE LET left == 2 * pos + 1
             cmp == IF left + 1 < Len(heap)
                    THEN TupleLt(heap[left + 1], heap[left + 2]) ELSE "T"
         IN  CASE cmp = "E" -> [heap |-> heap, err |-> TRUE]
               [] cmp = "T" -> siftup(Swap(heap, left, pos), startpos, left)
               [] cmp = "F" -> siftup(Swap(heap, left + 1, pos), startpos, left + 1)

\* put_nowait: heappush appends the item, then sifts it
heappush(heap, item) == siftdown(Append(heap, item), 0, Len(heap))

heappopKeeps(heap) == [heap |-> heap, err |-> FALSE]

\* get_nowait: heappop takes the last item off, puts it in place of the first
\* and sifts it; the first item is what it returns.  heap is not empty
heappop(heap) ==
    IF Len(heap) = 1 THEN [heap |-> <<>>, err |-> FALSE]
    ELSE siftup([SubSeq(heap, 1, Len(heap) - 1) EXCEPT ![1] = heap[Len(heap)]], 0, 0)

(***************************************************************************)
(* TaskManager                                                             *)
(***************************************************************************)
HeadDueEarly(trigger, t) == trigger.trigger_dt <= t + 1

\* get_task, line 58: the head entry is due
HeadDue(trigger, t) == trigger.trigger_dt <= t

\* get_task from the top of its while loop to the point where it waits,
\* returns or raises.  The clock is read once: a second reading that finds the
\* head due gives the timeout 0, which is the wait that ends at once
get_task(q) ==
    IF q = <<>> THEN [kind |-> "wait_empty", queue |-> q]
    ELSE IF ~HeadDue(q[1].trigger, now)
    THEN [kind |-> "wait_timed", queue |-> q, deadline |-> q[1].trigger.trigger_dt]
    ELSE LET popped == heappop(q)
             adv    == TriggerNext(q[1].trigger, now)
             again  == heappush(popped.heap, Entry(adv.tr, q[1].task))
             ret(h) == [kind |-> "return", queue |-> h, task |-> q[1].task,
                        dt |-> q[1].trigger.trigger_dt, before |-> q]
         IN  IF popped.err THEN [kind |-> "raise", queue |-> popped.heap]
             ELSE IF adv.exc = "StopIteration" THEN ret(popped.heap)
             ELSE IF adv.exc # "none" THEN [kind |-> "raise", queue |-> popped.heap]
             ELSE IF again.err THEN [kind |-> "raise", queue |-> again.heap]
             ELSE ret(again.heap)

\* TaskManager.run from the test of its while loop to the point where it
\* waits inside get_task, has a task to execute, or ends.  An exception that
\* leaves get_task is logged with task.func.__name__: when no task was ever
\* returned the name task is unbound and run ends with UnboundLocalError
RECURSIVE run(_, _)
run(q, tk) ==
    IF stop_event THEN [kind |-> "done", queue |-> q]
    ELSE LET g == get_task(q)
         IN  IF g.kind # "raise" THEN g
             ELSE IF tk = NoTask THEN [kind |-> "crashed", queue |-> g.queue]
             ELSE run(g.queue, tk)

\* get_task resumed after a wait: its while loop goes round again
resume(q, tk) ==
    LET g == get_task(q)
    IN  IF g.kind # "raise" THEN g
        ELSE IF tk = NoTask THEN [kind |-> "crashed", queue |-> g.queue]
        ELSE run(g.queue, tk)

\* the coroutine of TaskManager.run goes on to its next resting point
Goes(r) ==
    /\ queue' = r.queue
    /\ pc' = IF r.kind = "return" THEN "exec" ELSE r.kind
    /\ task' = IF r.kind = "return" THEN r.task ELSE task
    /\ lastReturn' = IF r.kind = "return"
                     THEN [task |-> r.task, dt |-> r.dt, at |-> now, before |-> r.before]
                     ELSE NoReturn
    /\ dispatched' = IF r.kind # "return" THEN dispatched
                     ELSE IF r.task \in DOMAIN dispatched
                          THEN [dispatched EXCEPT ![r.task] = @ + 1]
                          ELSE dispatched @@ (r.task :> 1)
    /\ deadline' = IF r.kind = "wait_timed" THEN r.deadline ELSE 0
    /\ notified' = FALSE

Waiting == pc \in {"wait_empty", "wait_timed"}

\* submit_task(Task(...), trigger); NoTrigger stands for trigger=None
submit_task(trigger) ==
    LET t    == nsub + 1
        used == IF trigger = NoTrigger THEN once(now) ELSE trigger
        adv  == TriggerNext(used, now)
        put  == heappush(queue, Entry(adv.tr, t))
    IN  /\ nsub' = t
        /\ IF adv.exc # "none"
           THEN /\ submitResult' = [task |-> t, queued |-> FALSE,
                                    exc |-> IF adv.exc = "StopIteration" THEN "none"
                                            ELSE adv.exc,
                                    cron_expression |-> used.cron_expression]
                /\ UNCHANGED <<queue, notified>>
           ELSE /\ queue' = put.heap
                /\ submitResult' = [task |-> t, queued |-> TRUE,
                                    exc |-> IF put.err THEN "TypeError" ELSE "none",
                                    cron_expression |-> used.cron_expression]
                /\ notified' = IF ~put.err /\ Waiting THEN TRUE ELSE notified
        /\ refused' = IF submitResult'.exc # "none" THEN refused \cup {t} ELSE refused
        /\ immediate' = IF trigger = NoTrigger THEN immediate \cup {t} ELSE immediate
        /\ UNCHANGED <<now, stop_event, pc, task, deadline, lastReturn, dispatched, trigVars, fieldVars>>

\* the event loop runs TaskManager.run for the first time
Start ==
    /\ pc = "loop"
    /\ Goes(run(queue, task))
    /\ UNCHANGED <<now, stop_event, nsub, submitResult, refused, immediate, trigVars, fieldVars>>

\* the waiting get_task is resumed, by notify() or by the timeout of wait_for
WakeUp ==
    /\ Waiting
    /\ notified \/ (pc = "wait_timed" /\ now >= deadline)
    /\ Goes(resume(queue, task))
    /\ UNCHANGED <<now, stop_event, nsub, submitResult, refused, immediate, trigVars, fieldVars>>

\* task.run() returns; run goes round its loop
TaskDone ==
    /\ pc = "exec"
    /\ Goes(run(queue, task))
    /\ UNCHANGED <<now, stop_event, nsub, submitResult, refused, immediate, trigVars, fieldVars>>

Exceptions == {"Exception", "TimeoutError", "CancelledError"}

\* task.run() raises exc
TaskRaise(exc) ==
    /\ pc = "exec"
    /\ Goes(IF exc = "CancelledError" THEN [kind |-> "done", queue |-> queue]
            ELSE run(queue, task))
    /\ UNCHANGED <<now, stop_event, nsub, submitResult, refused, immediate, trigVars, fieldVars>>

\* BotFlow.stop: stop_event.set()
Stop ==
    /\ ~stop_event
    /\ stop_event' = TRUE
    /\ UNCHANGED <<now, queue, pc, task, deadline, notified, nsub, submitResult,
                   refused, immediate, lastReturn, dispatched, trigVars, fieldVars>>

(***************************************************************************)
(* The scheduler with its callers                                          *)
(***************************************************************************)
\* cron expressions that are not well formed
FiveFields    == Expr(<<Star, Star, Star, Star, Star>>)                          \* "* * * * *"
NonNumeric    == Expr(<<<<"a">>, Star, Star, Star, Star, Star>>)                 \* "a * * * * *"
OutOfRange    == Expr(<<Digits(70), Star, Star, Star, Star, Star>>)              \* "70 * * * * *"
ReversedRange == Expr(<<Digits(5) \o <<"-">> \o Digits(2), Star, Star, Star, Star, Star>>)  \* "5-2 * * * * *"

MalformedCrons == {FiveFields, NonNumeric, OutOfRange, ReversedRange}

\* a trigger object that has been used up: its status is Completed
SpentOnce == [OnceTrigger(1, FALSE) EXCEPT !.trigger_dt = DatetimeMax, !.status = "Completed"]

\* the triggers submit_task is called with
Catalogue ==
    {NoTrigger,
     OnceTrigger(1, FALSE), OnceTrigger(1, TRUE),
     IntervalTrigger(1, 1, 2, FALSE),
     CronTrigger(EveryMinute, 0, 180, FALSE)}
    \cup {CronTrigger(expr, 0, 180, FALSE) : expr \in MalformedCrons}
    \cup {SpentOnce}

\* triggers that collide: submitted twice they have identical field values
TieCatalogue == {IntervalTrigger(1, 0, MaxClock + 1, FALSE), once(0), once(1)}

SubmitAny == nsub < MaxTasks /\ \E trigger \in Catalogue : submit_task(trigger)

SubmitColliding == nsub < MaxTieTasks /\ \E trigger \in TieCatalogue : submit_task(trigger)

Init == now = 0 /\ SchedIdle /\ TrigIdle /\ FieldIdle

Next ==
    \/ Tick
    \/ SubmitAny
    \/ Start
    \/ WakeUp
    \/ TaskDone
    \/ \E exc \in Exceptions : TaskRaise(exc)
    \/ Stop

Spec == Init /\ [][Next]_vars

\* the same scheduler, never stopped, its tasks never failing, fed with
\* colliding triggers
TieNext ==
    \/ Tick
    \/ SubmitColliding
    \/ Start
    \/ WakeUp
    \/ TaskDone

TieSpec == Init /\ [][TieNext]_vars

(***************************************************************************)
(* A _CronField observed on its own: built from a field string, then       *)
(* reset and iterated.  The field strings are written out from terms of    *)
(* the forms the class documents, and from a word that is no number.       *)
(***************************************************************************)
FieldNums == {0, 2, 5, 70}

FieldTerms ==
    {[form |-> "star", a |-> 0, b |-> 0], [form |-> "word", a |-> 0, b |-> 0]}
    \cup {[form |-> "num", a |-> a, b |-> 0] : a \in FieldNums}
    \cup {[form |-> "starstep", a |-> 0, b |-> b] : b \in FieldNums}
    \cup {[form |-> f, a |-> a, b |-> b] : f \in {"range", "step"}, a \in FieldNums, b \in FieldNums}

\* the text of a term: "*", "abc", "5", "*/5", "1-5", "1/5"
TermText(term) ==
    CASE term.form = "star"     -> Star
      [] term.form = "word"     -> <<"a", "b", "c">>
      [] term.form = "num"      -> Digits(term.a)
      [] term.form = "starstep" -> <<"*", "/">> \o Digits(term.b)
      [] term.form = "range"    -> Digits(term.a) \o <<"-">> \o Digits(term.b)
      [] term.form = "step"     -> Digits(term.a) \o <<"/">> \o Digits(term.b)

FieldText(terms) == join([i \in DOMAIN terms |-> TermText(terms[i])], ",")

FieldInputs == UNION {[1..n -> FieldTerms] : n \in 1..MaxTerms}

\* second / minute, and month
FieldRanges == {CronFieldRanges[1], CronFieldRanges[5]}

ResetArgs == {0, 3, 60}

\* _CronField(value, min_val, max_val)
FieldConstruct(terms, min_val, max_val) ==
    /\ fieldCall.op = "none"
    /\ LET built == CronField(FieldText(terms), min_val, max_val)
       IN  /\ field' = IF built.exc = "none" THEN built
                       ELSE [NoField EXCEPT !.exc = built.exc]
           /\ fieldCall' = [NoFieldCall EXCEPT !.op = "construct", !.terms = terms,
                                               !.value = FieldText(terms),
                                               !.exc = built.exc,
                                               !.arg = <<min_val, max_val>>]
    /\ UNCHANGED <<now, schedVars, trigVars>>

\* field.reset(value)
FieldReset(value) ==
    /\ field.exc = "none"
    /\ field' = CronFieldReset(field, value)
    /\ fieldCall' = [fieldCall EXCEPT !.op = "reset", !.prev = fieldCall.op,
                                      !.arg = value, !.yielded = <<>>]
    /\ UNCHANGED <<now, schedVars, trigVars>>

\* list(field)
FieldIterate ==
    /\ field.exc = "none"
    /\ field' = CronFieldIter(field).field
    /\ fieldCall' = [fieldCall EXCEPT !.op = "iter", !.prev = fieldCall.op,
                                      !.yielded = CronFieldIter(field).yielded]
    /\ UNCHANGED <<now, schedVars, trigVars>>

FieldNext ==
    \/ \E terms \in FieldInputs, r \in FieldRanges : FieldConstruct(terms, r[1], r[2])
    \/ \E value \in ResetArgs : FieldReset(value)
    \/ FieldIterate

FieldSpec == Init /\ [][FieldNext]_vars

(***************************************************************************)
(* Claims about a trigger observed on its own (TriggerSpec)                *)
(***************************************************************************)
SeqRange(f) == {f[i] : i \in DOMAIN f}
Ascending(f) == \A i, j \in DOMAIN f : i < j => f[i] < f[j]

\* C3: after construction and after any number of next() calls, a trigger that
\* is not Completed has start_dt <= trigger_dt <= end_dt; a construction with
\* start_dt > end_dt or with trigger_dt outside the window is rejected
C3_WindowHoldsUnlessCompleted ==
    /\ (trig # NoTrigger /\ lastCall.onlyNext /\ trig.status # "Completed")
          => (trig.start_dt <= trig.trigger_dt /\ trig.trigger_dt <= trig.end_dt)
    /\ (lastCall.op = "construct"
          /\ (lastCall.arg.start_dt > lastCall.arg.end_dt
              \/ lastCall.arg.trigger_dt < lastCall.arg.start_dt
              \/ lastCall.arg.trigger_dt > lastCall.arg.end_dt))
          => (lastCall.exc = "ValueError" /\ trig = NoTrigger)

\* C4: once the status is Completed, no operation changes the trigger, and
\* every operation reports exhaustion (StopIteration, or the status Completed)
C4_CompletedIsAbsorbing ==
    [][(trig # NoTrigger /\ trig.status = "Completed")
         => /\ trig' = trig
            /\ (lastCall' # lastCall
                  => (lastCall'.exc = "StopIteration" \/ lastCall'.status = "Completed"))]_vars

\* the datetimes in [s, e] that match "0 * * * * *": the whole minutes
EveryMinuteMatches(s, e) == {t \in s..e : t % 60 = 0}

\* C5: successive next() calls on CronTrigger("0 * * * * *", start_dt, end_dt)
\* produce exactly the whole minutes of [start_dt, end_dt], ascending, none
\* skipped, and then Completed
C5_CronProducesExactlyTheMatches ==
    (trig # NoTrigger /\ trig.kind = "Cron" /\ trig.cron_expression = EveryMinute
       /\ ~trig.skip_past /\ lastCall.op = "next" /\ lastCall.onlyNext)
    => LET M == EveryMinuteMatches(trig.start_dt, trig.end_dt)
       IN  /\ lastCall.exc \in {"none", "StopIteration"}
           /\ Ascending(fires)
           /\ SeqRange(fires) \subseteq M
           /\ (lastCall.exc = "none"
                 => SeqRange(fires) = {m \in M : m <= fires[Len(fires)]})
           /\ (lastCall.exc = "StopIteration"
                 => (SeqRange(fires) = M /\ trig.status = "Completed"))

\* C13: successive next() calls on IntervalTrigger(p, S, E), p > 0, produce
\* S, S+p, S+2p, ...; the last one is the largest S+k*p <= E (E itself is
\* produced when it is one of them), and the call after it ends Completed.
C13_IntervalProgressionUpToEnd ==
    (trig # NoTrigger /\ trig.kind = "Interval" /\ trig.interval > 0
       /\ ~trig.skip_past /\ lastCall.op = "next" /\ lastCall.onlyNext)
    => /\ lastCall.exc \in {"none", "StopIteration"}
       /\ \A i \in DOMAIN fires :
              fires[i] = trig.start_dt + (i - 1) * trig.interval /\ fires[i] <= trig.end_dt
       /\ (lastCall.exc = "none" => (fires # <<>> /\ trig.status = "Running"))
       /\ (lastCall.exc = "StopIteration"
             => /\ trig.status = "Completed"
                /\ fires # <<>>
                /\ fires[Len(fires)] + trig.interval > trig.end_dt)

\* the smallest start_dt + k*interval, k = 0, 1, ..., that is >= t (start_dt <= t)
FirstAtOrAfter(start_dt, interval, t) ==
    LET k == CHOOSE n \in 0..(t - start_dt) :
                 /\ start_dt + n * interval >= t
                 /\ \A m \in 0..(n - 1) : start_dt + m * interval < t
    IN  start_dt + k * interval

\* C14: the first fire time of an IntervalTrigger with skip_past whose
\* start_dt lies before now is the smallest start_dt + k*interval >= now,
\* also when now - start_dt is a multiple of the interval; the status is
\* Running, or Completed when that time is later than end_dt.  (Stated for
\* intervals that fit the window.)
C14_SkipPastFirstFireAtOrAfterNow ==
    [][(/\ trig # NoTrigger /\ trig.kind = "Interval" /\ trig.status = "Ready"
        /\ trig.skip_past /\ trig.interval \in 1..MaxHorizon
        /\ trig.trigger_dt = trig.start_dt /\ trig.start_dt < now
        /\ lastCall'.op = "get_first_fire_time")
       => LET best == FirstAtOrAfter(trig.start_dt, trig.interval, now)
          IN  /\ lastCall'.exc = "none"
              /\ IF best > trig.end_dt THEN lastCall'.status = "Completed"
                 ELSE lastCall'.dt = best /\ lastCall'.status = "Running"]_vars

\* the first whole minute at or after t
MinuteAtOrAfter(t) == ((t + 59) \div 60) * 60

\* C16: the first fire time of CronTrigger("0 * * * * *", start_dt, end_dt) is
\* the first whole minute at or after start_dt, each later one the first whole
\* minute after the one before; with skip_past false none of them depends on
\* the clock at the time of the call.
C16_CronSeededFromWindowStart ==
    (trig # NoTrigger /\ trig.kind = "Cron" /\ trig.cron_expression = EveryMinute
       /\ ~trig.skip_past /\ lastCall.op = "next" /\ lastCall.onlyNext
       /\ MinuteAtOrAfter(trig.start_dt) <= trig.end_dt /\ Len(fires) <= 1)
    => /\ lastCall.exc = "none"
       /\ fires # <<>>
       /\ \A i \in DOMAIN fires :
              fires[i] = MinuteAtOrAfter(trig.start_dt) + 60 * (i - 1)

\* C28: the fire times that successive next() calls produce on a trigger are
\* strictly increasing, also with the interval 0 that is the default of the
\* field.  (Stated for the intervals that are not negative.)
C28_FireTimesStrictlyIncrease ==
    (trig # NoTrigger /\ trig.interval >= 0 /\ lastCall.onlyNext) => Ascending(fires)

\* f is the beginning of g
Prefix(f, g) == Len(f) <= Len(g) /\ \A i \in DOMAIN f : f[i] = g[i]

\* nothing but next() has been called on CronTrigger(expr, 0, end_dt)
CronStepped(expr, end_dt) ==
    /\ trig # NoTrigger /\ trig.kind = "Cron"
    /\ trig.cron_expression = expr /\ trig.end_dt = end_dt
    /\ lastCall.op = "next" /\ lastCall.onlyNext

\* C21: the generator yields every matching datetime from its reference time
\* on, the smaller units starting again from their smallest value when a
\* larger unit moves: "0 0,30 8,12 * * *" started between 09:15:00 and
\* 09:15:02 gives 12:00:00, then 12:30:00, then 08:00:00 of the next day
C21_NoMatchIsSkipped ==
    CronStepped(HalfHours, Datetime(2, 0, 0, 0))
    => /\ lastCall.exc = "none"
       /\ fires # <<>>
       /\ Prefix(fires, <<Datetime(0, 12, 0, 0), Datetime(0, 12, 30, 0),
                          Datetime(1, 8, 0, 0)>>)

\* C22: no datetime later than end_dt is produced and the end of the
\* sequence is signalled: every next() returns a fire time <= end_dt or ends
\* with StopIteration and Completed, at once when the window holds no match
C22_NothingLaterThanEnd ==
    (trig # NoTrigger /\ trig.kind = "Cron" /\ lastCall.op = "next" /\ lastCall.onlyNext)
    => /\ lastCall.exc \in {"none", "StopIteration"}
       /\ \A i \in DOMAIN fires : fires[i] <= trig.end_dt
       /\ (lastCall.exc = "StopIteration" => trig.status = "Completed")
       /\ ((trig.cron_expression = LeapDay /\ trig.end_dt < Datetime(4, 0, 0, 0))
             => lastCall.exc = "StopIteration")

\* C23: when the matches of a year are used up the generator goes on to the
\* next year without raising, also when the last match is the 29th of
\* February: "0 0 0 29 2 *" in a window that ends on the 2nd of March 2024
\* gives 2024-02-29 00:00:00 and then the end of the sequence
C23_YearAdvanceNeverRaises ==
    CronStepped(LeapDay, Datetime(6, 0, 0, 0))
    => /\ lastCall.exc \in {"none", "StopIteration"}
       /\ Prefix(fires, <<Datetime(4, 0, 0, 0)>>)
       /\ (lastCall.exc = "StopIteration" <=> Len(fires) = 1 /\ trig.status = "Completed")

\* C27: a datetime is yielded only when it satisfies all six fields, the day
\* of the month and the day of the week both, and a date that does not exist
\* is passed over without ending the sequence: "0 0 0 1,2,30 2,3 4" from
\* 2024-02-25 to 2024-03-06 gives the 1st of March (a Friday) alone, neither
\* the 30th of February nor the 2nd of March (a Saturday)
C27_AllSixFieldsAndRealDates ==
    CronStepped(FridayDates, Datetime(10, 0, 0, 0))
    => /\ lastCall.exc \in {"none", "StopIteration"}
       /\ (lastCall.exc = "none" => fires = <<Datetime(5, 0, 0, 0)>>)
       /\ (lastCall.exc = "StopIteration" => Len(fires) = 1)

(***************************************************************************)
(* Claims about a _CronField observed on its own (FieldSpec)               *)
(***************************************************************************)
FieldMin == fieldCall.arg[1]
FieldMax == fieldCall.arg[2]

\* C17: constructing a field fails when a parsed value lies outside
\* [min, max] or when a range has its start after its end, so every field
\* that was constructed has all its values within [min, max].
C17_OutOfRangeIsRejected ==
    field.exc = "none" =>
        /\ \A i \in DOMAIN field.values :
               field.min <= field.values[i] /\ field.values[i] <= field.max
        /\ \A i \in DOMAIN fieldCall.terms :
               fieldCall.terms[i].form = "range" => fieldCall.terms[i].a <= fieldCall.terms[i].b

\* the numbers of a term lie in [min, max], and a step is positive
InRangeTerm(term, min_val, max_val) ==
    CASE term.form = "star"     -> TRUE
      [] term.form = "word"     -> FALSE
      [] term.form = "num"      -> term.a \in min_val..max_val
      [] term.form = "starstep" -> term.b \in min_val..max_val /\ term.b > 0
      [] term.form = "range"    -> term.a \in min_val..max_val /\ term.b \in min_val..max_val
      [] term.form = "step"     -> /\ term.a \in min_val..max_val
                                   /\ term.b \in min_val..max_val /\ term.b > 0

\* the set a term stands for
TermSet(term, min_val, max_val) ==
    CASE term.form = "star"     -> min_val..max_val
      [] term.form = "num"      -> {term.a}
      [] term.form = "starstep" -> {v \in min_val..max_val : (v - min_val) % term.b = 0}
      [] term.form = "range"    -> term.a..term.b
      [] term.form = "step"     -> {v \in term.a..max_val : (v - term.a) % term.b = 0}

\* C18: for a field string of comma-separated terms *, a, a-b, a/b and */b
\* with in-range numbers, the values of the field are the union of the sets
\* of the terms, ascending and without duplicates.
C18_ValuesAreTheUnionOfTheTerms ==
    (/\ fieldCall.op = "construct"
     /\ \A i \in DOMAIN fieldCall.terms : InRangeTerm(fieldCall.terms[i], FieldMin, FieldMax))
    => /\ field.exc = "none"
       /\ {field.values[i] : i \in DOMAIN field.values}
              = UNION {TermSet(fieldCall.terms[i], FieldMin, FieldMax) : i \in DOMAIN fieldCall.terms}
       /\ \A i, j \in DOMAIN field.values : i < j => field.values[i] < field.values[j]

\* C19: reset(v) puts the cursor on the first value >= v, past the end
\* when there is none; the iteration that follows yields exactly the values
\* >= v, ascending; a complete iteration leaves the cursor on the first value.
C19_ResetThenIterateYieldsTheValuesFromV ==
    /\ fieldCall.op = "reset" =>
           field.iter_index = Cardinality({i \in DOMAIN field.values : field.values[i] < fieldCall.arg})
    /\ (fieldCall.op = "iter" /\ fieldCall.prev = "reset") =>
           fieldCall.yielded = SelectSeq(field.values, LAMBDA v : v >= fieldCall.arg)
    /\ fieldCall.op = "iter" => field.iter_index = 0

(***************************************************************************)
(* Claims about the scheduler                                              *)
(***************************************************************************)
\* a step in which get_task returns a task to TaskManager.run
Dispatches ==
    /\ pc' = "exec"
    /\ Start \/ WakeUp \/ TaskDone \/ \E exc \in Exceptions : TaskRaise(exc)

FireTimes(q) == {q[i].trigger.trigger_dt : i \in DOMAIN q}

\* C1: when get_task returns a task, its trigger_dt is the smallest of all the
\* entries the queue held at that moment
C1_ReturnsTheSmallestFireTime ==
    lastReturn.task # NoTask
    => \A dt \in FireTimes(lastReturn.before) : lastReturn.dt <= dt

\* C2: when get_task pops and returns an entry, the entry's trigger_dt is not
\* later than the current time
C2_NeverBeforeFireTime ==
    lastReturn.task # NoTask => lastReturn.dt <= lastReturn.at

\* a recurring task is returned for the second time, at its second fire time,
\* out of a queue that holds other entries too
C2_Witness ==
    /\ pc = "exec"
    /\ lastReturn.task # NoTask
    /\ dispatched[lastReturn.task] = 2
    /\ lastReturn.dt = lastReturn.at
    /\ Len(lastReturn.before) > 1

\* C6: when a dispatched task raises an exception, TaskManager.run does not
\* end: it goes on with its loop
C6_TaskExceptionKeepsRunAlive ==
    [][(~stop_event /\ \E exc \in Exceptions : TaskRaise(exc))
         => pc' \notin {"done", "crashed"}]_vars

\* C7: once stop_event is set, get_task returns no further task to
\* TaskManager.run for execution
C7_NoDispatchAfterStop == [][stop_event => ~Dispatches]_vars

\* C9: when get_task waits for the fire time of the head and submit_task puts
\* an entry with an earlier fire time into the queue, the waiter is notified
C9_EarlierSubmissionWakesWaiter ==
    [][(pc = "wait_timed" /\ nsub' = nsub + 1 /\ submitResult'.queued
          /\ \E i \in DOMAIN queue' :
                /\ queue'[i].task = nsub'
                /\ queue'[i].trigger.trigger_dt < deadline)
         => notified']_vars

\* C10: of the tasks with equal fire times that submit_task accepted and that
\* wait for their first dispatch, get_task returns the one submitted first
C10_EqualFireTimesInSubmissionOrder ==
    (lastReturn.task # NoTask /\ dispatched[lastReturn.task] = 1
       /\ lastReturn.task \notin refused)
    => \A i \in DOMAIN lastReturn.before :
          LET e == lastReturn.before[i]
          IN  (e.trigger.trigger_dt = lastReturn.dt /\ e.task \notin DOMAIN dispatched
                 /\ e.task \notin refused)
                 => e.task >= lastReturn.task

\* C11: the queue never holds two entries for the same task, and never an
\* entry whose trigger is Completed
C11_OneEntryPerTask ==
    /\ \A i, j \in DOMAIN queue : i # j => queue[i].task # queue[j].task
    /\ \A i \in DOMAIN queue : queue[i].trigger.status # "Completed"

\* a recurring task executes while its next entry waits in the queue, among
\* other entries
C11_Witness ==
    /\ pc = "exec"
    /\ Len(queue) > 1
    /\ \E i \in DOMAIN queue :
          /\ queue[i].task = lastReturn.task
          /\ queue[i].trigger.trigger_dt > lastReturn.dt

C15_OnceTaskDispatchedExactlyOnce ==
    /\ [](\A i \in DOMAIN queue :
            (queue[i].trigger.kind = "Once" /\ ~queue[i].trigger.skip_past)
                => /\ queue[i].trigger.status = "Running"
                   /\ queue[i].trigger.trigger_dt = queue[i].trigger.start_dt
                   /\ queue[i].task \notin DOMAIN dispatched)
    /\ [][\A i \in DOMAIN queue :
            (refused' = {} /\ queue[i].trigger.kind = "Once" /\ ~queue[i].trigger.skip_past)
                => \/ \E j \in DOMAIN queue' : queue'[j] = queue[i]
                   \/ /\ pc' = "exec"
                      /\ task' = queue[i].task
                      /\ dispatched'[task'] = 1
                      /\ \A j \in DOMAIN queue' : queue'[j].task # task']_vars

\* C20: a task submitted with no trigger is queued with a one-shot trigger
\* at the time of its submission, so that get_task need not wait for it; it
\* is returned by get_task once and is not queued again.  (Stated for the
\* states in which no submit_task call has raised.)
C20_TriggerlessTaskRunsOnce ==
    \A t \in IF refused = {} THEN immediate ELSE {} :
        LET held == {i \in DOMAIN queue : queue[i].task = t}
        IN  \/ /\ Cardinality(held) = 1
               /\ t \notin DOMAIN dispatched
               /\ \A i \in held : /\ queue[i].trigger.kind = "Once"
                                  /\ queue[i].trigger.status = "Running"
                                  /\ queue[i].trigger.trigger_dt <= now
            \/ /\ held = {}
               /\ t \in DOMAIN dispatched
               /\ dispatched[t] = 1

\* C29: submit_task succeeds for every valid trigger whatever the queue
\* holds: no call raises, also when the trigger has the field values of a
\* trigger that is queued already, and the task is queued
C29_IdenticalTriggersAreAccepted ==
    /\ refused = {}
    /\ submitResult.task # NoTask => (submitResult.exc = "none" /\ submitResult.queued)

\* the first fire-time computation of tr at time t ends Completed: a
\* OnceTrigger with skip_past whose time is past, or a trigger used up before
CompletesAtFirst(tr, t) ==
    /\ tr # NoTrigger
    /\ \/ tr.status = "Completed"
       \/ (tr.kind = "Once" /\ tr.status = "Ready" /\ tr.skip_past /\ tr.trigger_dt < t)

\* C26: when the first fire-time computation of the submitted trigger gives
\* Completed, submit_task returns without raising and leaves the queue as it
\* was; the task is not dispatched: a task that get_task returns for the
\* first time was in the queue.
C26_CompletedAtSubmissionIsDropped ==
    /\ [][\A tr \in Catalogue :
            (CompletesAtFirst(tr, now) /\ submit_task(tr))
                => (submitResult'.exc = "none" /\ ~submitResult'.queued /\ queue' = queue)]_vars
    /\ [][\A t \in DOMAIN dispatched' :
            t \notin DOMAIN dispatched => \E i \in DOMAIN queue : queue[i].task = t]_vars
    /\ []((submitResult.task # NoTask /\ ~submitResult.queued /\ submitResult.exc = "none")
            => /\ submitResult.task \notin DOMAIN dispatched
               /\ \A i \in DOMAIN queue : queue[i].task # submitResult.task)

\* an OnceTrigger with skip_past was submitted after its time, while a task
\* executed and another waited in the queue
C26_Witness ==
    /\ now = 2
    /\ submitResult.task # NoTask
    /\ ~submitResult.queued
    /\ submitResult.exc = "none"
    /\ queue # <<>>
    /\ pc = "exec"

\* the task t has an entry in the queue q
Queued(t, q) == \E i \in DOMAIN q : q[i].task = t

\* C30: a recurring task (one that get_task put back into the queue before
\* handing it out) whose execution raises an exception stays scheduled: its
\* entry is still in the queue afterwards, or it has been handed out again,
\* and TaskManager.run is still there to dispatch it
C30_FailedRecurringTaskStaysScheduled ==
    [][\A exc \in Exceptions :
          (~stop_event /\ Queued(task, queue) /\ TaskRaise(exc))
              => /\ Queued(task, queue') \/ dispatched'[task] > dispatched[task]
                 /\ pc' \notin {"done", "crashed"}]_vars

\* C24: with the loop never stopped and every execution coming to an end, a
\* task that submit_task has put into the queue is returned by get_task: its
\* entry leaves the queue only by being returned, a get_task that waits on
\* the empty queue is notified by the submit_task that fills it, and
\* TaskManager.run does not end while it is not stopped
C24_QueuedTasksAreReturned ==
    /\ [][refused' = {}
            => \A t \in 1..nsub :
                  (Queued(t, queue) /\ ~Queued(t, queue')) => lastReturn'.task = t]_vars
    /\ [][(pc = "wait_empty" /\ nsub' = nsub + 1 /\ submitResult'.queued)
            => notified']_vars
    /\ []((refused = {} /\ ~stop_event) => pc \notin {"done", "crashed"})

(***************************************************************************)
(* Liveness: the event loop runs every coroutine that can run, executing   *)
(* tasks come to an end, the clock goes on                                 *)
(***************************************************************************)
FairSpec ==
    /\ Spec
    /\ WF_vars(Start)
    /\ WF_vars(WakeUp)
    /\ WF_vars(TaskDone)
    /\ WF_vars(Tick)

\* C8: after stop_event is set, TaskManager.run eventually returns
C8_StopEndsRun == stop_event ~> (pc \in {"done", "crashed"})

\* the same scheduler when an execution may go on for ever: the event loop
\* still runs every other coroutine that can run, and the clock goes on
LongTaskSpec ==
    /\ Spec
    /\ WF_vars(Start)
    /\ WF_vars(WakeUp)
    /\ WF_vars(Tick)

\* a task is executing and the entry of another task is due
DueWhileExecuting ==
    /\ pc = "exec" /\ ~stop_event /\ refused = {}
    /\ queue # <<>> /\ queue[1].task # task
    /\ HeadDue(queue[1].trigger, now)

\* C25: executions run beside the dispatch loop: an entry of another task
\* that is due while a task is executing does not stay in the queue until
\* that execution has ended, however long the execution takes
C25_DueTaskNotHeldBackByExecution == DueWhileExecuting ~> ~DueWhileExecuting

====
